---- MODULE Spec2Model ----
(***************************************************************************)
(* A model of project_structure.py: generate_ascii_tree (the tree          *)
(* renderer), manage_gitignore (the ignore-list updater) and main.         *)
(*                                                                         *)
(* Text is modelled character by character: a Python str is a sequence of  *)
(* one-character strings.  The box-drawing glyphs of the source are        *)
(* written with ASCII stand-ins:  "|" for U+2502, "+" for U+251C, "L" for  *)
(* U+2514 and "-" for U+2500.                                              *)
(***************************************************************************)
EXTENDS Naturals, Sequences, FiniteSets, TLC

VARIABLES
    root_isdir,        \* os.path.isdir(root_directory)
    tree,              \* the directory tree under the root: path -> "dir" | "file" | "other"
    denied,            \* the directories whose os.listdir raises PermissionError
    gitignore,         \* the file <root>/.gitignore: absent, or its characters
    output_file,       \* the output file: absent, or the lines written to it
    stdout,            \* the messages printed so far
    args,              \* the arguments the caller passes
    call,              \* the arguments and locals of the last call
    ncalls,            \* how many calls were made
    pc                 \* where main is

vars == <<root_isdir, tree, denied, gitignore, output_file, stdout, args, call, ncalls, pc>>

(***************************************************************************)
(* Bounds of the model.                                                    *)
(***************************************************************************)
MaxFileLen == 2        \* characters of the initial .gitignore
MaxEntries == 2        \* entries requested in one manage_gitignore call
MaxCalls == 2          \* calls of manage_gitignore in one behaviour

\* A file is absent, or present with its content.
NoFile == [exists |-> FALSE, text |-> <<>>]

File(text) == [exists |-> TRUE, text |-> text]
NoCall == [op |-> "none"]

(***************************************************************************)
(* Characters and strings.                                                 *)
(***************************************************************************)
NL == "\n"
SP == " "

\* The characters the model uses, in ascending code point order.
CodePoints ==
    <<"\n", " ", "#", "*", "-", ".", "/", "?", "D", "S", "[", "_",
      "a", "b", "c", "d", "e", "f", "g", "h", "i", "j", "k", "l", "m", "n",
      "o", "p", "q", "r", "s", "t", "u", "v", "w", "x", "y", "z">>

OrdTable ==
    [c \in {CodePoints[i] : i \in 1..Len(CodePoints)} |->
        CHOOSE i \in 1..Len(CodePoints) : CodePoints[i] = c]

\* ord(c), up to the gaps between the characters in use.
Ord(c) == OrdTable[c]

Whitespace == {SP, NL}

\* s < t for Python str: the first differing character decides, a proper
\* prefix is smaller.
RECURSIVE StrLess(_, _)
StrLess(s, t) ==
    IF t = <<>> THEN FALSE
    ELSE IF s = <<>> THEN TRUE
    ELSE IF Head(s) # Head(t) THEN Ord(Head(s)) < Ord(Head(t))
    ELSE StrLess(Tail(s), Tail(t))

\* The sorted sequence seq with the string s put in its place.
RECURSIVE Insert(_, _)
Insert(s, seq) ==
    IF seq = <<>> THEN <<s>>
    ELSE IF StrLess(Head(seq), s) THEN <<Head(seq)>> \o Insert(s, Tail(seq))
    ELSE <<s>> \o seq

\* sorted(S) for a set of strings.
RECURSIVE Sorted(_)
Sorted(S) ==
    IF S = {} THEN <<>>
    ELSE LET x == CHOOSE y \in S : TRUE
         IN  Insert(x, Sorted(S \ {x}))

\* str.startswith for a one-character prefix.
StartsWith(s, c) == Len(s) > 0 /\ s[1] = c

EndsWith(s, c) == Len(s) > 0 /\ s[Len(s)] = c

Contains(s, c) == \E i \in 1..Len(s) : s[i] = c

RECURSIVE LStrip(_)
LStrip(s) ==
    IF s # <<>> /\ Head(s) \in Whitespace THEN LStrip(Tail(s)) ELSE s

RECURSIVE RStrip(_)
RStrip(s) ==
    IF s # <<>> /\ s[Len(s)] \in Whitespace
    THEN RStrip(SubSeq(s, 1, Len(s) - 1)) ELSE s

\* str.strip()
Strip(s) == RStrip(LStrip(s))

\* The lines a text file yields when iterated: each keeps its newline, the
\* last one may lack it.
RECURSIVE SplitLines(_)
SplitLines(text) ==
    IF text = <<>> THEN <<>>
    ELSE IF \E i \in 1..Len(text) : text[i] = NL
         THEN LET i == CHOOSE k \in 1..Len(text) :
                          text[k] = NL /\ \A j \in 1..(k - 1) : text[j] # NL
              IN  <<SubSeq(text, 1, i)>> \o SplitLines(SubSeq(text, i + 1, Len(text)))
         ELSE <<text>>

RECURSIVE Concat(_)
Concat(ss) == IF ss = <<>> THEN <<>> ELSE Head(ss) \o Concat(Tail(ss))

Range(f) == {f[i] : i \in DOMAIN f}

\* All strings over the characters cs of length at most n.
RECURSIVE Strings(_, _)
Strings(cs, n) ==
    IF n = 0 THEN {<<>>}
    ELSE LET shorter == Strings(cs, n - 1)
         IN  shorter \cup {<<c>> \o s : c \in cs, s \in {t \in shorter : Len(t) = n - 1}}

IsPrefix(s, t) == Len(s) <= Len(t) /\ SubSeq(t, 1, Len(s)) = s

(***************************************************************************)
(* The file system under the root directory.  A path is the sequence of    *)
(* names leading from the root to an entry; the root is <<>>.              *)
(***************************************************************************)
GitignoreName == <<".", "g", "i", "t", "i", "g", "n", "o", "r", "e">>

GitignorePath == <<GitignoreName>>

Exists(t, path) == path \in DOMAIN t

\* os.path.isdir / os.path.isfile of an entry under the root.
IsDir(t, path) == Exists(t, path) /\ t[path] = "dir"

IsFile(t, path) == Exists(t, path) /\ t[path] = "file"

\* The tree after open(path, 'w') or open(path, 'a') created or reopened a file.
WithFile(t, path) ==
    [p \in DOMAIN t \cup {path} |-> IF p = path THEN "file" ELSE t[p]]

\* The bytes of a file: a missing file has none.
Content(f) == f.text

(***************************************************************************)
(* manage_gitignore                                                        *)
(***************************************************************************)
\* existing_entries: the set comprehension over the lines of .gitignore.
ExistingEntries(text) ==
    {Strip(line) : line \in {l \in Range(SplitLines(text)) :
                                 Strip(l) # <<>> /\ ~StartsWith(l, "#")}}

\* new_entries = set(entries_to_ignore) - existing_entries
NewEntries_NoDifference(entries_to_ignore, existing_entries) == entries_to_ignore

NewEntries(entries_to_ignore, existing_entries) ==
    entries_to_ignore \ existing_entries

\* open(gitignore_path, 'a') followed by the writes: the old bytes stay.
AppendTo_Truncating(old, data) == data

AppendTo(old, data) == old \o data

\* The strings the append block passes to write(), in order.
AppendWrites(size, new_entries) ==
    LET sorted == Sorted(new_entries)
    IN  (IF size > 0 THEN <<(<<NL>>)>> ELSE <<>>)
            \o [i \in 1..Len(sorted) |-> sorted[i] \o <<NL>>]

\* open(gitignore_path, 'a') succeeds only on a file or a free name in an
\* existing directory.
CanOpenGitignore ==
    root_isdir /\ (Exists(tree, GitignorePath) => IsFile(tree, GitignorePath))

\* One call manage_gitignore(root_dir, entries_to_ignore).  read_ok and
\* open_ok say whether the two open() calls succeed; written is the number
\* of write() calls that complete before an IOError (all of them: no error).
ManageGitignore(entries_to_ignore, read_ok, open_ok, written) ==
    LET isfile == gitignore.exists
        existing_entries ==
            IF isfile THEN ExistingEntries(gitignore.text) ELSE {}
        new_entries == NewEntries(entries_to_ignore, existing_entries)
        writes == AppendWrites(Len(Content(gitignore)), new_entries)
        record(err, ex, new) ==
            [op |-> "manage_gitignore", entries_to_ignore |-> entries_to_ignore,
             before |-> gitignore, existing_entries |-> ex, new_entries |-> new,
             error |-> err]
    IN  IF isfile /\ ~read_ok
        THEN \* except IOError: print, return
             /\ written = 0 /\ open_ok
             /\ stdout' = Append(stdout, [msg |-> "Error reading '.gitignore'"])
             /\ call' = record("read", {}, {})
             /\ UNCHANGED <<gitignore, tree>>
        ELSE IF new_entries = {}
        THEN /\ written = 0 /\ open_ok /\ read_ok
             /\ stdout' = Append(stdout, [msg |-> "No changes made"])
             /\ call' = record("none", existing_entries, new_entries)
             /\ UNCHANGED <<gitignore, tree>>
        ELSE IF ~(open_ok /\ CanOpenGitignore)
        THEN /\ written = 0 /\ read_ok
             /\ stdout' = Append(stdout, [msg |-> "Error writing to '.gitignore'"])
             /\ call' = record("write", existing_entries, new_entries)
             /\ UNCHANGED <<gitignore, tree>>
        ELSE /\ read_ok
             /\ written \in 0..Len(writes)
             /\ gitignore' = File(AppendTo(Content(gitignore), Concat(SubSeq(writes, 1, written))))
             /\ tree' = WithFile(tree, GitignorePath)
             /\ IF written = Len(writes)
                THEN /\ stdout' = Append(stdout,
                             [msg |-> "Added entries", count |-> Cardinality(new_entries)])
                     /\ call' = record("none", existing_entries, new_entries)
                ELSE /\ stdout' = Append(stdout, [msg |-> "Error writing to '.gitignore'"])
                     /\ call' = record("write", existing_entries, new_entries)

(***************************************************************************)
(* The calls of manage_gitignore on its own: any initial ignore file, any  *)
(* requested entries, repeated, with any I/O failure.                      *)
(***************************************************************************)
FileChars == {"a", "#", SP, NL}

ExampleFile == <<"b", "u", "i", "l", "d", "/", NL>>

ExampleEntries == {<<"b", "u", "i", "l", "d", "/">>, <<"d", "i", "s", "t", "/">>}

InitialFiles == Strings(FileChars, MaxFileLen) \cup {ExampleFile}

EntryPool == {<<"a">>, <<"b">>, <<"#", "a">>, <<SP, "a">>}

EntrySets ==
    {S \in SUBSET EntryPool : Cardinality(S) <= MaxEntries} \cup {ExampleEntries}

\* The longest write sequence: the separator and one line per entry.
MaxWrites == MaxEntries + 1

InitIgnore ==
    /\ root_isdir = TRUE
    /\ denied = {}
    /\ output_file = NoFile
    /\ stdout = <<>>
    /\ call = NoCall
    /\ ncalls = 0
    /\ pc = "idle"
    /\ args \in [entries_to_ignore : EntrySets]
    /\ \/ /\ gitignore \in {File(text) : text \in InitialFiles}
          /\ tree = [p \in {GitignorePath} |-> "file"]
       \/ /\ gitignore = NoFile
          /\ tree \in {<<>>, [p \in {GitignorePath} |-> "dir"]}

CallManageGitignore ==
    \E read_ok \in BOOLEAN, open_ok \in BOOLEAN, written \in 0..MaxWrites :
        /\ ncalls < MaxCalls
        /\ ncalls' = ncalls + 1
        /\ ManageGitignore(args.entries_to_ignore, read_ok, open_ok, written)
        /\ UNCHANGED <<root_isdir, denied, output_file, args, pc>>

NextIgnore == CallManageGitignore

SpecIgnore == InitIgnore /\ [][NextIgnore]_vars

(***************************************************************************)
(* generate_ascii_tree                                                     *)
(***************************************************************************)
Branch == <<"+", "-", "-", SP>>           \* the connector of an entry that is not the last
Corner == <<"L", "-", "-", SP>>           \* the connector of the last entry
Continuation == <<"|", SP, SP, SP>>       \* prefix segment under a Branch entry
Blank == <<SP, SP, SP, SP>>               \* prefix segment under a Corner entry

PermissionDenied ==
    <<"[", "P", "e", "r", "m", "i", "s", "s", "i", "o", "n", SP,
      "D", "e", "n", "i", "e", "d", "]">>

\* One file.write of the walk: the text written is prefix, connector, entry
\* and a newline; kind and path say which entry the line was written for.
Line(kind, prefix, connector, entry, path) ==
    [kind |-> kind, prefix |-> prefix, connector |-> connector,
     entry |-> entry, path |-> path]

\* The characters of a written line.
LineText(line) == line.prefix \o line.connector \o line.entry \o <<NL>>

\* os.listdir(dir_path): the names in a directory, in no particular order.
ListDir(t, dir_path) ==
    {p[Len(p)] : p \in {q \in DOMAIN t :
        Len(q) = Len(dir_path) + 1 /\ SubSeq(q, 1, Len(dir_path)) = dir_path}}

\* os.path.join(dir_path, entry)
Join(dir_path, entry) == Append(dir_path, entry)

\* The filter loop: TRUE for the entries appended to filtered_entries.
Keep_HiddenShown(t, dir_path, entry, exclude_dirs, exclude_files) ==
    /\ ~(IsDir(t, Join(dir_path, entry)) /\ entry \in exclude_dirs)
    /\ ~(IsFile(t, Join(dir_path, entry)) /\ entry \in exclude_files)

Keep(t, dir_path, entry, exclude_dirs, exclude_files) ==
    /\ ~(StartsWith(entry, ".") /\ entry # GitignoreName)
    /\ ~(IsDir(t, Join(dir_path, entry)) /\ entry \in exclude_dirs)
    /\ ~(IsFile(t, Join(dir_path, entry)) /\ entry \in exclude_files)

\* filtered_entries: the sorted listing without the entries the filter drops.
FilteredEntries_Unfiltered(t, dir_path, exclude_dirs, exclude_files) ==
    Sorted(ListDir(t, dir_path))

FilteredEntries(t, dir_path, exclude_dirs, exclude_files) ==
    SelectSeq(Sorted(ListDir(t, dir_path)),
              LAMBDA entry : Keep(t, dir_path, entry, exclude_dirs, exclude_files))

\* connector = branch if index < entries_count - 1 else corner (index from 1 here)
Connector_AlwaysBranch(index, entries_count) == Branch

Connector(index, entries_count) ==
    IF index < entries_count THEN Branch ELSE Corner

\* extension = continuation if index < entries_count - 1 else blank
Extension_AlwaysBlank(index, entries_count) == Blank

Extension(index, entries_count) ==
    IF index < entries_count THEN Continuation ELSE Blank

\* The except PermissionError branch of tree(): one line, then return.
DeniedLines_Silent(dir_path, prefix) == <<>>

DeniedLines(dir_path, prefix) ==
    <<Line("denied", prefix, Corner, PermissionDenied, dir_path)>>

\* tree(dir_path, prefix): the lines it writes, in order.  TreeLoop is the
\* for loop over filtered_entries from position index on.
RECURSIVE TreeWalk(_, _, _, _, _, _)
RECURSIVE TreeLoop(_, _, _, _, _, _, _, _)
TreeWalk(t, den, exclude_dirs, exclude_files, dir_path, prefix) ==
    IF dir_path \in den
    THEN DeniedLines(dir_path, prefix)
    ELSE TreeLoop(t, den, exclude_dirs, exclude_files, dir_path, prefix,
                  FilteredEntries(t, dir_path, exclude_dirs, exclude_files), 1)

TreeLoop(t, den, exclude_dirs, exclude_files, dir_path, prefix, filtered_entries, index) ==
    IF index > Len(filtered_entries) THEN <<>>
    ELSE LET entry == filtered_entries[index]
             path == Join(dir_path, entry)
             entries_count == Len(filtered_entries)
         IN  <<Line("entry", prefix, Connector(index, entries_count), entry, path)>>
             \o (IF IsDir(t, path)
                 THEN TreeWalk(t, den, exclude_dirs, exclude_files, path,
                               prefix \o Extension(index, entries_count))
                 ELSE <<>>)
             \o TreeLoop(t, den, exclude_dirs, exclude_files, dir_path, prefix,
                         filtered_entries, index + 1)

\* os.path.abspath and os.path.basename on the root_dir argument.
Cwd == <<"/", "w">>

AbsPath(p) == IF StartsWith(p, "/") THEN p ELSE Cwd \o <<"/">> \o p

RECURSIVE Basename(_)
Basename(p) ==
    IF p = <<>> \/ p[Len(p)] = "/" THEN <<>>
    ELSE Basename(SubSeq(p, 1, Len(p) - 1)) \o <<p[Len(p)]>>

\* root_name, with the fallback for a root such as '/'.
RootName(root_dir) ==
    IF Basename(AbsPath(root_dir)) = <<>> THEN root_dir ELSE Basename(AbsPath(root_dir))

RootLine(root_dir) == Line("root", <<>>, <<>>, RootName(root_dir) \o <<"/">>, <<>>)

\* The output file lies outside the root directory, or directly in it.
Outside == <<>>

\* open(output_file, 'w') succeeds on a file or a free name in an existing
\* directory.
CanOpenOutput(output_path) ==
    output_path # Outside =>
        root_isdir /\ (Exists(tree, output_path) => IsFile(tree, output_path))

\* One call generate_ascii_tree(root_dir, output_file, exclude_dirs,
\* exclude_files).  open_ok says whether open() succeeds.
GenerateAsciiTree(root_dir, output_path, exclude_dirs, exclude_files, open_ok) ==
    LET opened == IF output_path = Outside THEN tree ELSE WithFile(tree, output_path)
        record(err) ==
            [op |-> "generate_ascii_tree", root_dir |-> root_dir,
             output_path |-> output_path, exclude_dirs |-> exclude_dirs,
             exclude_files |-> exclude_files, tree |-> opened, error |-> err]
    IN  IF ~(open_ok /\ CanOpenOutput(output_path))
        THEN \* except IOError around open(): nothing is written
             /\ stdout' = Append(stdout, [msg |-> "Error writing to output file"])
             /\ call' = [record("open") EXCEPT !.tree = tree]
             /\ UNCHANGED <<tree, output_file>>
        ELSE /\ tree' = opened
             /\ IF root_isdir
                THEN /\ output_file' = File(<<RootLine(root_dir)>>
                            \o TreeWalk(opened, denied, exclude_dirs, exclude_files, <<>>, <<>>))
                     /\ stdout' = Append(stdout,
                            [msg |-> "ASCII project structure has been written"])
                     /\ call' = record("none")
                ELSE \* os.listdir raises an OSError other than PermissionError
                     /\ output_file' = File(<<RootLine(root_dir)>>)
                     /\ stdout' = Append(stdout, [msg |-> "Error writing to output file"])
                     /\ call' = record("listdir")

(***************************************************************************)
(* The calls of generate_ascii_tree on its own: the environment builds a   *)
(* directory tree and withdraws listing permissions, then the tree is      *)
(* rendered once.                                                          *)
(***************************************************************************)
MaxNodes == 3          \* entries of the directory tree under the root
MaxDenied == 1         \* directories that cannot be listed

EnvName == <<".", "e", "n", "v">>

BuildName == <<"b", "u", "i", "l", "d">>

OutputName == <<"o", "u", "t">>

NamePool == {GitignoreName, EnvName, BuildName, <<"a">>}

Kinds == {"dir", "file"}

RootDirs == {<<"r">>, <<"/">>}

ExcludeDirSets == {{}, {BuildName}}

ExcludeFileSets == {{}, {<<"a">>}}

\* The directories of a tree, the root included.
Dirs(t) == {<<>>} \cup {p \in DOMAIN t : t[p] = "dir"}

InitTree ==
    /\ root_isdir \in BOOLEAN
    /\ tree = <<>>
    /\ denied = {}
    /\ gitignore = NoFile
    /\ output_file = NoFile
    /\ stdout = <<>>
    /\ args = [none |-> TRUE]
    /\ call = NoCall
    /\ ncalls = 0
    /\ pc = "idle"

\* The environment creates a file or a directory.
AddEntry ==
    \E parent \in Dirs(tree), name \in NamePool, kind \in Kinds :
        /\ root_isdir /\ ncalls = 0
        /\ Cardinality(DOMAIN tree) < MaxNodes
        /\ ~Exists(tree, Join(parent, name))
        /\ tree' = [p \in DOMAIN tree \cup {Join(parent, name)} |->
                        IF p = Join(parent, name) THEN kind ELSE tree[p]]
        /\ gitignore' = IF Join(parent, name) = GitignorePath /\ kind = "file"
                        THEN File(<<>>) ELSE gitignore
        /\ UNCHANGED <<root_isdir, denied, output_file, stdout, args, call, ncalls, pc>>

\* The environment makes a directory unlistable.
DenyListing ==
    \E d \in Dirs(tree) \ denied :
        /\ root_isdir /\ ncalls = 0
        /\ Cardinality(denied) < MaxDenied
        /\ denied' = denied \cup {d}
        /\ UNCHANGED <<root_isdir, tree, gitignore, output_file, stdout, args, call, ncalls, pc>>

CallGenerateAsciiTree ==
    \E root_dir \in RootDirs, output_path \in {Outside, <<OutputName>>},
       exclude_dirs \in ExcludeDirSets, exclude_files \in ExcludeFileSets,
       open_ok \in BOOLEAN :
        /\ ncalls = 0
        /\ ncalls' = 1
        /\ GenerateAsciiTree(root_dir, output_path, exclude_dirs, exclude_files, open_ok)
        /\ UNCHANGED <<root_isdir, denied, gitignore, args, pc>>

NextTree == AddEntry \/ DenyListing \/ CallGenerateAsciiTree

SpecTree == InitTree /\ [][NextTree]_vars

(***************************************************************************)
(* main                                                                    *)
(***************************************************************************)
ScriptName == <<"p", "r", "o", "j", "e", "c", "t", "_", "s", "t", "r", "u", "c", "t", "u", "r", "e", ".", "p", "y">>

CommonExclusions ==
    {<<"n", "o", "d", "e", "_", "m", "o", "d", "u", "l", "e", "s">>,
     <<"v", "e", "n", "v">>,
     <<"_", "_", "p", "y", "c", "a", "c", "h", "e", "_", "_">>,
     <<".", "e", "n", "v">>,
     <<".", "D", "S", "_", "S", "t", "o", "r", "e">>,
     <<"b", "u", "i", "l", "d">>,
     <<"d", "i", "s", "t">>,
     <<"*", ".", "e", "g", "g", "-", "i", "n", "f", "o">>,
     <<".", "v", "s", "c", "o", "d", "e">>,
     <<".", "i", "d", "e", "a">>,
     <<".", "p", "y", "t", "e", "s", "t", "_", "c", "a", "c", "h", "e">>,
     <<"c", "o", "v", "e", "r", "a", "g", "e">>,
     <<"l", "o", "g", "s">>,
     <<"t", "e", "m", "p">>}

\* '*' in exclusion or '?' in exclusion or '[' in exclusion
HasWildcard(exclusion) ==
    Contains(exclusion, "*") \/ Contains(exclusion, "?") \/ Contains(exclusion, "[")

\* The entry main adds to entries_to_ignore for one exclusion.
IgnoreEntry(exclusion) ==
    IF HasWildcard(exclusion) THEN exclusion
    ELSE IF EndsWith(exclusion, "/") THEN exclusion
    ELSE IF exclusion \in CommonExclusions THEN exclusion \o <<"/">>
    ELSE exclusion

\* exclusions = common_exclusions.union(set(args.exclude))
Exclusions(exclude) == CommonExclusions \cup exclude

EntriesToIgnore(output, exclusions) ==
    {ScriptName, output} \cup {IgnoreEntry(exclusion) : exclusion \in exclusions}

\* os.path.join(root_directory, args.output): an absolute output path
\* replaces the root.
OutputPath(output) == IF StartsWith(output, "/") THEN Outside ELSE <<output>>

\* os.path.isfile(output_file)
OutputIsFile(output) ==
    IF OutputPath(output) = Outside THEN output_file.exists
    ELSE IsFile(tree, OutputPath(output))

\* main up to the check of the root directory.
MainStart_NoCheck ==
    /\ pc = "start"
    /\ pc' = "generate"
    /\ stdout' = IF OutputIsFile(args.output)
                 THEN Append(stdout, [msg |-> "Existing output file will be overwritten"])
                 ELSE stdout
    /\ UNCHANGED <<root_isdir, tree, denied, gitignore, output_file, args, call, ncalls>>

MainStart ==
    /\ pc = "start"
    /\ IF ~root_isdir
       THEN /\ stdout' = Append(stdout, [msg |-> "Error: The directory does not exist"])
            /\ pc' = "done"
       ELSE /\ stdout' = IF OutputIsFile(args.output)
                         THEN Append(stdout, [msg |-> "Existing output file will be overwritten"])
                         ELSE stdout
            /\ pc' = "generate"
    /\ UNCHANGED <<root_isdir, tree, denied, gitignore, output_file, args, call, ncalls>>

\* generate_ascii_tree(root_directory, output_file, exclude_dirs=exclusions)
MainGenerate ==
    \E open_ok \in BOOLEAN :
        /\ pc = "generate"
        /\ pc' = "gitignore"
        /\ GenerateAsciiTree(AbsPath(args.root_dir), OutputPath(args.output),
                             Exclusions(args.exclude), {}, open_ok)
        /\ UNCHANGED <<root_isdir, denied, gitignore, args, ncalls>>

\* manage_gitignore(root_directory, sorted(entries_to_ignore))
MainGitignore ==
    \E read_ok \in BOOLEAN, open_ok \in BOOLEAN,
       written \in 0..(Cardinality(EntriesToIgnore(args.output, Exclusions(args.exclude))) + 1) :
        /\ pc = "gitignore"
        /\ pc' = "done"
        /\ ManageGitignore(EntriesToIgnore(args.output, Exclusions(args.exclude)),
                           read_ok, open_ok, written)
        /\ UNCHANGED <<root_isdir, denied, output_file, args, ncalls>>

(***************************************************************************)
(* One run of main: any arguments, a root directory that exists or not,    *)
(* and a few entries in it.                                                *)
(***************************************************************************)
OutputArgs == {OutputName, <<"/">> \o OutputName}

ExcludeArgs == {{}, {<<"a">>}, {<<"a", "/">>}}

MainNames == {GitignoreName, BuildName, OutputName}

\* The trees with entries of MainNames directly under the root.
MainTrees ==
    UNION {[{<<n>> : n \in S} -> Kinds] : S \in SUBSET MainNames}

MainIgnoreFiles == {<<>>, ExampleFile}

OldOutput == File(<<RootLine(<<"r">>)>>)

InitMain ==
    /\ pc = "start"
    /\ ncalls = 0
    /\ call = NoCall
    /\ stdout = <<>>
    /\ denied = {}
    /\ args \in [root_dir : RootDirs, output : OutputArgs, exclude : ExcludeArgs]
    /\ root_isdir \in BOOLEAN
    /\ tree \in IF root_isdir THEN MainTrees ELSE {<<>>}
    /\ gitignore \in IF IsFile(tree, GitignorePath)
                     THEN {File(text) : text \in MainIgnoreFiles} ELSE {NoFile}
    /\ output_file \in IF OutputPath(args.output) = Outside THEN {NoFile, OldOutput}
                       ELSE IF IsFile(tree, OutputPath(args.output)) THEN {OldOutput}
                       ELSE {NoFile}

NextMain == MainStart \/ MainGenerate \/ MainGitignore

SpecMain == InitMain /\ [][NextMain]_vars

(***************************************************************************)
(* Properties of manage_gitignore.                                         *)
(***************************************************************************)
ManageCall == call.op = "manage_gitignore"

\* The call ran to its end without an I/O error.
ManageOk == ManageCall /\ call.error = "none"

\* The text the last call added behind the old content.
AppendedText == SubSeq(Content(gitignore), Len(Content(call.before)) + 1, Len(Content(gitignore)))

\* A text's lines as spans between newlines, without the newlines.
LineSpans(text) ==
    {<<i, j>> \in (1..(Len(text) + 1)) \X (0..Len(text)) :
        /\ j >= i - 1
        /\ i = 1 \/ text[i - 1] = NL
        /\ j = Len(text) \/ text[j + 1] = NL
        /\ \A k \in i..j : text[k] # NL}

LinesOf(text) == {SubSeq(text, sp[1], sp[2]) : sp \in LineSpans(text)}

\* C1: calling manage_gitignore twice in a row with the same entries, both
\* calls without an I/O error, makes the second call add nothing: the file
\* after the second call is the file after the first.
C1_Idempotent ==
    [][(/\ ManageOk
        /\ ncalls' = ncalls + 1
        /\ call'.error = "none"
        /\ call'.entries_to_ignore = call.entries_to_ignore)
       => (gitignore' = gitignore /\ call'.new_entries = {})]_vars

\* C2: the content the ignore file had before a call, whether the call
\* succeeded, changed nothing or failed, is a prefix of its content after the
\* call, and an existing file is never removed.
C2_AppendOnly ==
    ManageCall =>
        /\ IsPrefix(Content(call.before), Content(gitignore))
        /\ call.before.exists => gitignore.exists

\* A second call that failed in the middle of its writes, on a file that
\* already had content.
C2_Witness ==
    /\ ManageCall /\ call.error = "write" /\ ncalls = MaxCalls
    /\ Len(Content(call.before)) > 0
    /\ Len(Content(gitignore)) > Len(Content(call.before)) + 1

C4_CommentAfterTrim ==
    (ManageCall /\ call.error # "read" /\ call.before.exists) =>
        call.existing_entries =
            {Strip(l) : l \in {x \in LinesOf(Content(call.before)) :
                                  Strip(x) # <<>> /\ ~StartsWith(Strip(x), "#")}}

(***************************************************************************)
(* Properties of generate_ascii_tree.  They are stated on the directory    *)
(* tree as it was when the walk ran (call.tree), not on the walk.          *)
(***************************************************************************)
\* The walk ran to its end and the output file was closed.
Rendered == call.op = "generate_ascii_tree" /\ call.error = "none"

OutLines == output_file.text

EntryLines == {i \in 1..Len(OutLines) : OutLines[i].kind = "entry"}

DeniedLineIndexes == {i \in 1..Len(OutLines) : OutLines[i].kind = "denied"}

NameOf(path) == path[Len(path)]

ParentOf(path) == SubSeq(path, 1, Len(path) - 1)

IsProperPrefix(p, q) == Len(p) < Len(q) /\ SubSeq(q, 1, Len(p)) = p

\* The filter's rule for one entry of the tree.
Hidden(path) == NameOf(path)[1] = "." /\ NameOf(path) # GitignoreName

Excluded(path) ==
    \/ call.tree[path] = "dir" /\ NameOf(path) \in call.exclude_dirs
    \/ call.tree[path] = "file" /\ NameOf(path) \in call.exclude_files

Dropped(path) == Hidden(path) \/ Excluded(path)

\* A directory the walk lists: neither it nor a directory above it is
\* dropped, and every directory above it can be listed.
Reached(dir) ==
    /\ dir = <<>> \/ (dir \in DOMAIN call.tree /\ call.tree[dir] = "dir")
    /\ \A k \in 1..Len(dir) : ~Dropped(SubSeq(dir, 1, k))
    /\ \A k \in 0..(Len(dir) - 1) : SubSeq(dir, 1, k) \notin denied

\* The entries recursive listing reaches and the filter keeps.
Visible ==
    {p \in DOMAIN call.tree :
        ~Dropped(p) /\ Reached(ParentOf(p)) /\ ParentOf(p) \notin denied}

DeniedReached == {d \in denied : Reached(d)}

\* The last of the entries of its directory that remain after filtering.
LastRemaining(p) ==
    \A q \in Visible : ParentOf(q) = ParentOf(p) /\ q # p => StrLess(NameOf(q), NameOf(p))

\* C6 as claimed: the number of lines after the root line is the number of
\* non-excluded, non-hidden entries reachable by recursive listing.
C6_LinesEqualEntries ==
    Rendered => Len(OutLines) - 1 = Cardinality(Visible)

\* C6 amended: the number of lines after the root line is the number of
\* non-excluded, non-hidden entries reachable by recursive listing plus the
\* number of reached directories whose listing is denied, each of which adds
\* one placeholder line.
C6_LinesEqualEntriesAndPlaceholders ==
    Rendered =>
        /\ OutLines[1].kind = "root"
        /\ Len(OutLines) - 1 = Cardinality(Visible) + Cardinality(DeniedReached)
        /\ Cardinality(EntryLines) = Cardinality(Visible)

\* A walk that met a hidden entry, kept more than one entry and was denied a
\* directory.
C6_Witness ==
    /\ Rendered
    /\ Cardinality(Visible) >= 2
    /\ DeniedReached # {}
    /\ \E p \in DOMAIN call.tree : Dropped(p)

\* C7: at every rendered level the last remaining entry has the terminal
\* connector and every earlier remaining sibling the branch connector, so a
\* level with lines has exactly one terminal connector.
C7_Connectors ==
    Rendered =>
        /\ \A i \in EntryLines :
                OutLines[i].connector =
                    IF LastRemaining(OutLines[i].path) THEN Corner ELSE Branch
        /\ \A p \in Visible :
                Cardinality({i \in EntryLines :
                    /\ ParentOf(OutLines[i].path) = ParentOf(p)
                    /\ OutLines[i].connector = Corner}) = 1

\* A level whose last entry on disk is dropped by the filter while two
\* others remain.
C7_Witness ==
    /\ Rendered
    /\ \E p \in DOMAIN call.tree :
        /\ Dropped(p) /\ Reached(ParentOf(p)) /\ ParentOf(p) \notin denied
        /\ \A q \in DOMAIN call.tree :
                ParentOf(q) = ParentOf(p) /\ q # p => StrLess(NameOf(q), NameOf(p))
        /\ Cardinality({q \in Visible : ParentOf(q) = ParentOf(p)}) >= 2

\* C8: no line is written for a hidden entry other than .gitignore, for an
\* excluded directory, for an excluded file, or for anything below such a
\* directory.
C8_NoFilteredEntry ==
    Rendered =>
        \A i \in EntryLines :
            /\ OutLines[i].path \in DOMAIN call.tree
            /\ OutLines[i].entry = NameOf(OutLines[i].path)
            /\ ~(StartsWith(OutLines[i].entry, ".") /\ OutLines[i].entry # GitignoreName)
            /\ \A k \in 1..Len(OutLines[i].path) : ~Dropped(SubSeq(OutLines[i].path, 1, k))

\* Lines were written although the tree holds a hidden entry and an
\* excluded directory that is not empty.
C8_Witness ==
    /\ Rendered
    /\ EntryLines # {}
    /\ \E p \in DOMAIN call.tree : Hidden(p) \/ (call.tree[p] = "file" /\ Excluded(p))
    /\ \E p, q \in DOMAIN call.tree :
            call.tree[p] = "dir" /\ Excluded(p) /\ IsProperPrefix(p, q)

\* The prefix of the lines written for the children of a directory.
ChildPrefix(dir) ==
    IF dir = <<>> THEN <<>>
    ELSE LET i == CHOOSE k \in EntryLines : OutLines[k].path = dir
         IN  OutLines[i].prefix \o
                (IF OutLines[i].connector = Branch THEN Continuation ELSE Blank)

\* C9: a reached directory whose listing is denied gets exactly one
\* placeholder line, under the prefix of its children and right after its
\* own line; nothing below it is rendered; every other reachable entry is
\* still rendered and the run ends normally.
C9_PermissionDenied ==
    (call.op = "generate_ascii_tree" /\ call.error # "open" /\ root_isdir) =>
        /\ Rendered
        /\ stdout[Len(stdout)].msg = "ASCII project structure has been written"
        /\ \A d \in DeniedReached :
            /\ Cardinality({i \in DeniedLineIndexes : OutLines[i].path = d}) = 1
            /\ \A i \in DeniedLineIndexes : OutLines[i].path = d =>
                /\ OutLines[i].entry = PermissionDenied
                /\ OutLines[i].prefix = ChildPrefix(d)
                /\ OutLines[i - 1].path = d /\ OutLines[i - 1].kind # "denied"
            /\ \A i \in EntryLines : ~IsProperPrefix(d, OutLines[i].path)
        /\ \A i \in DeniedLineIndexes : OutLines[i].path \in DeniedReached
        /\ \A p \in Visible : \E i \in EntryLines : OutLines[i].path = p

\* A denied directory that is not empty, with a sibling rendered after its
\* placeholder.
C9_Witness ==
    /\ Rendered
    /\ \E i \in DeniedLineIndexes :
        /\ OutLines[i].path # <<>>
        /\ \E q \in DOMAIN call.tree : IsProperPrefix(OutLines[i].path, q)
        /\ i < Len(OutLines) /\ OutLines[i + 1].kind = "entry"

\* What is written below the entry at path p: its descendants and its
\* placeholder.
Below(line, p) ==
    IsProperPrefix(p, line.path) \/ (line.kind = "denied" /\ line.path = p)

\* The nesting depth of a line: the root's children have depth 0.
DepthOf(line) == IF line.kind = "denied" THEN Len(line.path) ELSE Len(line.path) - 1

\* C10: each remaining entry is written at most once; siblings come in
\* ascending order of name; what lies below a directory comes directly after
\* its line and before its next sibling's; the prefix of a line at depth d
\* has d segments of four characters, the k-th being the continuation
\* segment if the ancestor at level k was not the last remaining entry of
\* its level and four blanks if it was.
C10_PreOrder ==
    Rendered =>
        /\ \A i, j \in EntryLines : OutLines[i].path = OutLines[j].path => i = j
        /\ \A i, j \in EntryLines :
                (i < j /\ ParentOf(OutLines[i].path) = ParentOf(OutLines[j].path))
                    => StrLess(OutLines[i].entry, OutLines[j].entry)
        /\ \A i \in EntryLines : \A k \in 2..Len(OutLines) :
                Below(OutLines[k], OutLines[i].path) =>
                    /\ k > i
                    /\ \A j \in (i + 1)..k : Below(OutLines[j], OutLines[i].path)
        /\ \A i \in 2..Len(OutLines) :
                /\ Len(Blank) = 4 /\ Len(Continuation) = 4
                /\ Len(OutLines[i].prefix) = 4 * DepthOf(OutLines[i])
                /\ \A k \in 1..DepthOf(OutLines[i]) :
                        SubSeq(OutLines[i].prefix, 4 * (k - 1) + 1, 4 * k) =
                            IF LastRemaining(SubSeq(OutLines[i].path, 1, k))
                            THEN Blank ELSE Continuation

\* A directory that is not the last of its level with an entry below it,
\* followed by its sibling, and a line two levels down.
C10_Witness ==
    /\ Rendered
    /\ \E i \in EntryLines :
        /\ i + 2 <= Len(OutLines)
        /\ OutLines[i].connector = Branch
        /\ OutLines[i + 1].kind = "entry"
        /\ OutLines[i + 1].prefix = Continuation
        /\ ParentOf(OutLines[i + 2].path) = ParentOf(OutLines[i].path)

(***************************************************************************)
(* Properties of main.                                                     *)
(***************************************************************************)
\* C5: when the root path is not a directory, main prints the error and
\* stops: it never reaches generate_ascii_tree or manage_gitignore, prints
\* nothing else, and the output file and the ignore file stay as they were,
\* created neither inside nor outside the root.
C5_MissingRoot ==
    [][~root_isdir =>
        /\ pc' \in {"start", "done"}
        /\ pc' = "done" => stdout' = <<[msg |-> "Error: The directory does not exist"]>>
        /\ output_file' = output_file
        /\ gitignore' = gitignore
        /\ tree' = tree
        /\ call' = NoCall]_vars

\* main returned on a root that does not exist, asked for an output file
\* with an absolute path.
C5_Witness ==
    /\ pc = "done" /\ ~root_isdir
    /\ OutputPath(args.output) = Outside
    /\ stdout # <<>>

====
